---- MODULE Spec2Model ----
(***************************************************************************)
(* The task dependency graph leveler of 5dlabs/cto, in its two variants:   *)
(*   src/.scripts/build-dependency-graph.py  (validate_dependencies,       *)
(*       detect_circular_dependencies, build_execution_levels, main)       *)
(*   src/scripts/build-dependency-graph.py   (compute_execution_levels)    *)
(* A task id is a Python str, modelled as the sequence of its character    *)
(* codes, so that int(), str.isdigit() and the ordering of str are         *)
(* computed as Python computes them.                                       *)
(***************************************************************************)
EXTENDS Integers, Sequences, FiniteSets, TLC

\* ------------------------------------------------------------------ bounds
\* Largest number of task records in a graph.
MaxTasks == 3
\* Largest number of dependency edges in a graph.
MaxEdges == 4
\* Largest number of levels handed to a stats function called on its own.
MaxLevels == 3
\* Largest size of a level handed to a stats function called on its own.
MaxLevelSize == 3
\* Largest number of task records handed to a graph builder.
MaxRecords == 2

\* ------------------------------------------------------------- task ids
\* The ids of the model, as Python strings: "2", "02", "10" and "a".
\* "2" and "02" are distinct keys with the same int(); "10" sorts before "2"
\* as a str and after it as an int; "a" is not a decimal literal.
Id_2 == <<50>>
Id_02 == <<48, 50>>
Id_10 == <<49, 48>>
Id_a == <<97>>
TaskIds == {Id_2, Id_02, Id_10, Id_a}

\* The ids "1", "3" and "4" of the example of the module docstring.
Id_1 == <<49>>
Id_3 == <<51>>
Id_4 == <<52>>

\* str.isdigit(): non-empty and every character a decimal digit.
isdigit(s) == Len(s) > 0 /\ \A i \in 1..Len(s) : s[i] \in 48..57

\* int(s) for a string of decimal digits.
RECURSIVE int(_)
int(s) ==
    IF Len(s) = 0 THEN 0
    ELSE 10 * int(SubSeq(s, 1, Len(s) - 1)) + (s[Len(s)] - 48)

\* int(s) raises ValueError unless s is a decimal literal (the ids of the
\* model carry no sign, whitespace or underscore).
int_raises(s) == ~isdigit(s)

\* a < b on str: lexicographic by code point.
RECURSIVE StrLess(_, _)
StrLess(a, b) ==
    IF Len(b) = 0 THEN FALSE
    ELSE IF Len(a) = 0 THEN TRUE
    ELSE IF a[1] # b[1] THEN a[1] < b[1]
    ELSE StrLess(Tail(a), Tail(b))

\* ------------------------------------------------------------ sequences
Range(s) == {s[i] : i \in 1..Len(s)}

\* Every order in which the elements of a set can be iterated.
Orders(S) ==
    {s \in [1..Cardinality(S) -> S] : \A i, j \in 1..Cardinality(S) : i # j => s[i] # s[j]}

\* sorted(current_level) on a list of int: ascending.
RECURSIVE InsertInt(_, _)
InsertInt(x, s) ==
    IF s = <<>> THEN <<x>>
    ELSE IF x < Head(s) THEN <<x>> \o s
    ELSE <<Head(s)>> \o InsertInt(x, Tail(s))

RECURSIVE sorted(_)
sorted(s) ==
    IF s = <<>> THEN <<>>
    ELSE InsertInt(s[Len(s)], sorted(SubSeq(s, 1, Len(s) - 1)))

\* key=lambda x: int(x) if x.isdigit() else x, compared with '<' between
\* two keys of the same type.
KeyLess(a, b) == IF isdigit(a) THEN int(a) < int(b) ELSE StrLess(a, b)

\* list.sort compares an int key with a str key as soon as the list holds
\* both, and '<' between int and str raises TypeError.
sort_raises(s) == \E i, j \in 1..Len(s) : isdigit(s[i]) /\ ~isdigit(s[j])

\* list.sort(key=...) is stable: x goes after every element whose key is
\* not greater than its own.
RECURSIVE InsertByKey(_, _)
InsertByKey(x, s) ==
    IF s = <<>> THEN <<x>>
    ELSE IF KeyLess(x, Head(s)) THEN <<x>> \o s
    ELSE <<Head(s)>> \o InsertByKey(x, Tail(s))

RECURSIVE sort_by_key(_)
sort_by_key(s) ==
    IF s = <<>> THEN <<>>
    ELSE InsertByKey(s[Len(s)], sort_by_key(SubSeq(s, 1, Len(s) - 1)))

VARIABLES
    entry,        \* the function that was called
    task_deps,    \* the dependency graph: task id -> set of dependency ids
    pc,           \* the position of the call
    error,        \* the exception raised, if any
    visited,      \* detect_circular_dependencies: ids whose walk has started
    path,         \* detect_circular_dependencies: ids on the current walk
    stack,        \* the active dfs() calls, innermost last
    roots_left,   \* keys the for loop of detect_circular_dependencies has not reached
    root,         \* the key the for loop called dfs() with
    entered,      \* how often the body of dfs() was entered, per id
    levels,       \* the levels built so far
    task_levels,  \* id -> index of the level it was placed in
    remaining,    \* ids not placed yet
    iteration,    \* build_execution_levels: iterations of the while loop
    tasks_data,   \* the task records handed to the graph builder
    stats,        \* the stats record computed from the levels
    output_data   \* the plan main has written out

vars == <<entry, task_deps, pc, error, visited, path, stack, roots_left, root,
          entered, levels, task_levels, remaining, iteration, tasks_data, stats,
          output_data>>

\* The input records and the results of main's last steps.
io_vars == <<tasks_data, stats, output_data>>

dfs_vars == <<visited, path, stack, roots_left, root, entered>>
level_vars == <<levels, task_levels, remaining, iteration>>

\* ---------------------------------------------------------------- graph
Keys == DOMAIN task_deps

\* task_deps.get(task_id, []) / deps.get(task_id, set())
DepsOf(t) == IF t \in Keys THEN task_deps[t] ELSE {}

Edges(g) == {<<t, d>> \in (DOMAIN g) \X TaskIds : d \in g[t]}

Graphs ==
    UNION {{g \in [K -> SUBSET TaskIds] : Cardinality(Edges(g)) <= MaxEdges} :
           K \in {K \in SUBSET TaskIds : Cardinality(K) <= MaxTasks}}

\* -------------------------------------------------------------- errors
NoId == <<>>
NoError == [kind |-> "none", task |-> NoId, dep |-> NoId]
\* ValueError("Task {task_id} depends on non-existent task {dep}")
DanglingError(t, d) == [kind |-> "ValueError: non-existent", task |-> t, dep |-> d]
\* ValueError("Circular dependency detected involving task {task_id}")
CircularError(t) == [kind |-> "ValueError: circular", task |-> t, dep |-> NoId]
\* ValueError of int(task_id)
IntError(t) == [kind |-> "ValueError: int", task |-> t, dep |-> NoId]
\* RuntimeError("Unable to schedule remaining tasks: ...")
UnableError == [kind |-> "RuntimeError: unable", task |-> NoId, dep |-> NoId]
\* RuntimeError("Failed to schedule all tasks after N iterations ...")
FailedError == [kind |-> "RuntimeError: failed", task |-> NoId, dep |-> NoId]
\* TypeError of '<' between int and str in list.sort
SortTypeError == [kind |-> "TypeError", task |-> NoId, dep |-> NoId]

\* Where an exception ends: main catches it and exits with status 1, a
\* direct call lets it propagate to the caller.
Mains == {"main", "scripts_main"}

RaisedPc == IF entry \in Mains THEN "exit1" ELSE "raised"

\* ----------------------------------------------------------------- stats
\* The stats record before it is computed.
NoStats == [total_tasks |-> -1]

\* The plan before main writes it.
NoOutput == [written |-> FALSE, levels |-> <<>>, stats |-> NoStats]

\* sum(len(level) for level in levels)
RECURSIVE sum_of_sizes(_)
sum_of_sizes(ls) ==
    IF ls = <<>> THEN 0 ELSE Len(Head(ls)) + sum_of_sizes(Tail(ls))

\* max(len(level) for level in levels), for a non-empty list of levels.
RECURSIVE max_of_sizes(_)
max_of_sizes(ls) ==
    IF Len(ls) = 1 THEN Len(Head(ls))
    ELSE LET m == max_of_sizes(Tail(ls))
         IN IF Len(Head(ls)) > m THEN Len(Head(ls)) ELSE m

\* round(total / count, 2) in hundredths, without the rounding: the
\* quotient cut off after two decimals.
round2_truncated(total, count) == (100 * total) \div count

\* round(total / count, 2) for count > 0, in hundredths. The float total /
\* count is rounded to the nearest hundredth; a quotient that lies exactly
\* between two hundredths needs a count that is a multiple of 8 and goes to
\* the even one (round(1 / 8, 2) is 0.12, round(3 / 8, 2) is 0.38).
round2(total, count) ==
    LET q == (100 * total) \div count
        r == (100 * total) % count
    IN IF 2 * r < count THEN q
       ELSE IF 2 * r > count THEN q + 1
       ELSE IF q % 2 = 0 THEN q ELSE q + 1

\* calculate_parallelism_stats with the default of theoretical_speedup used
\* for avg_parallel as well.
calculate_parallelism_stats_avg_default(ls) ==
    [total_tasks |-> sum_of_sizes(ls),
     num_levels |-> Len(ls),
     max_parallel_tasks |-> IF ls # <<>> THEN max_of_sizes(ls) ELSE 0,
     avg_parallel_tasks |-> IF ls # <<>> THEN round2(sum_of_sizes(ls), Len(ls)) ELSE 100,
     theoretical_speedup |-> IF Len(ls) > 0 THEN round2(sum_of_sizes(ls), Len(ls)) ELSE 100]

\* calculate_parallelism_stats of src/.scripts, lines 171-188;
\* avg_parallel_tasks and theoretical_speedup are in hundredths.
calculate_parallelism_stats(ls) ==
    [total_tasks |-> sum_of_sizes(ls),
     num_levels |-> Len(ls),
     max_parallel_tasks |-> IF ls # <<>> THEN max_of_sizes(ls) ELSE 0,
     avg_parallel_tasks |-> IF ls # <<>> THEN round2(sum_of_sizes(ls), Len(ls)) ELSE 0,
     theoretical_speedup |-> IF Len(ls) > 0 THEN round2(sum_of_sizes(ls), Len(ls)) ELSE 100]

\* compute_stats of src/scripts, lines 123-141; avg_parallelism is in
\* hundredths.
compute_stats(ls) ==
    IF ls = <<>>
    THEN [total_tasks |-> 0, total_levels |-> 0, max_parallelism |-> 0,
          avg_parallelism |-> 0]
    ELSE [total_tasks |-> sum_of_sizes(ls),
          total_levels |-> Len(ls),
          max_parallelism |-> max_of_sizes(ls),
          avg_parallelism |-> round2(sum_of_sizes(ls), Len(ls))]

\* The stats main of src/.scripts writes for an empty task_deps, line 240.
empty_plan_stats == [total_tasks |-> 0, num_levels |-> 0]

\* The levels handed to a stats function called on its own: up to MaxLevels
\* levels of up to MaxLevelSize ids each.
LevelOfSize(k) == [i \in 1..k |-> i]

LevelInputs ==
    UNION {[1..n -> {LevelOfSize(k) : k \in 0..MaxLevelSize}] : n \in 0..MaxLevels}

\* --------------------------------------------------------- task records
\* A JSON value of a task record: an int, a str, an object {"id": n}, or
\* no value at all. val holds the int, the characters of the str, or the id
\* of the object.
RInt(n) == [type |-> "int", val |-> <<n>>]
RStr(chars) == [type |-> "str", val |-> chars]
RObj(n) == [type |-> "dict", val |-> <<n>>]
Absent == [type |-> "absent", val |-> <<>>]

\* The "dependencies" field of a record: absent, a JSON array or a JSON
\* string.
NoDeps == [enc |-> "absent", items |-> <<>>, text |-> <<>>]
DepArray(items) == [enc |-> "list", items |-> items, text |-> <<>>]
DepString(chars) == [enc |-> "str", items |-> <<>>, text |-> chars]

\* The decimal digits of a natural number.
RECURSIVE Digits(_)
Digits(n) == IF n < 10 THEN <<48 + n>> ELSE Digits(n \div 10) \o <<48 + (n % 10)>>

\* str(x): an int in decimal, a str as it is, a dict by its repr
\* "{'id': n}"; task.get("id", "") of a record without id is "".
py_str(x) ==
    CASE x.type = "int" -> Digits(x.val[1])
      [] x.type = "str" -> x.val
      [] x.type = "dict" -> <<123, 39, 105, 100, 39, 58, 32>> \o Digits(x.val[1]) \o <<125>>
      [] x.type = "absent" -> <<>>

\* The truth value of x: 0 and "" are false, an object with an id is true.
truthy(x) ==
    CASE x.type = "int" -> x.val[1] # 0
      [] x.type = "str" -> x.val # <<>>
      [] x.type = "dict" -> TRUE
      [] x.type = "absent" -> FALSE

\* s.split(","): the pieces of s between the commas.
RECURSIVE split(_, _)
split(chars, piece) ==
    IF chars = <<>> THEN <<piece>>
    ELSE IF Head(chars) = 44 THEN <<piece>> \o split(Tail(chars), <<>>)
    ELSE split(Tail(chars), Append(piece, Head(chars)))

\* s.strip(): s without its leading and trailing blanks.
RECURSIVE strip(_)
strip(chars) ==
    IF chars = <<>> THEN <<>>
    ELSE IF Head(chars) = 32 THEN strip(Tail(chars))
    ELSE IF chars[Len(chars)] = 32 THEN strip(SubSeq(chars, 1, Len(chars) - 1))
    ELSE chars

\* parse_tasks, lines 45-50: the dependency ids of one record. A string is
\* split at the commas, the other values are taken as a list; the entries
\* that are false are dropped and the rest stringified.
dep_ids(task) ==
    LET field == task.dependencies
        pieces == SelectSeq(split(field.text, <<>>), LAMBDA d : strip(d) # <<>>)
        deps == IF field.enc = "str"
                THEN [i \in 1..Len(pieces) |-> RStr(strip(pieces[i]))]
                ELSE field.items
        kept == SelectSeq(deps, truthy)
    IN [i \in 1..Len(kept) |-> py_str(kept[i])]

\* task_deps[task_id] = dep_ids, line 52.
RECURSIVE parse_tasks(_, _)
parse_tasks(records, acc) ==
    IF records = <<>> THEN acc
    ELSE LET task == Head(records)
             task_id == py_str(task.id)
         IN IF task_id = <<>> THEN parse_tasks(Tail(records), acc)
            ELSE parse_tasks(Tail(records),
                     [t \in DOMAIN acc \cup {task_id} |->
                         IF t = task_id THEN Range(dep_ids(task)) ELSE acc[t]])

\* build_dependency_graph, lines 61-71: the dependency ids one record adds.
\* dep_id, lines 65-68: str(dep.get('id', '')) of an object, str(dep) of
\* any other entry.
dep_id(dep) == IF dep.type = "dict" THEN Digits(dep.val[1]) ELSE py_str(dep)

\* The records of the model carry no dependsOn, so line 61 yields the
\* dependencies field, or [] when it is absent or empty. The loop of line 64
\* runs over the entries of a list and over the characters of a string.
added_deps(task) ==
    LET field == task.dependencies
        dependencies ==
            IF field.enc = "str"
            THEN [i \in 1..Len(field.text) |-> RStr(<<field.text[i]>>)]
            ELSE field.items
        ids == [i \in 1..Len(dependencies) |-> dep_id(dependencies[i])]
    IN {ids[i] : i \in {i \in 1..Len(ids) : ids[i] # <<>>}}

\* build_dependency_graph, lines 50-73: task_lookup[task_id] = task, and
\* deps[task_id] gains the ids of the record. The result maps every key of
\* task_lookup to deps.get(key, set()).
RECURSIVE build_dependency_graph(_, _)
build_dependency_graph(records, acc) ==
    IF records = <<>> THEN acc
    ELSE LET task == Head(records)
             task_id == py_str(task.id)
         IN IF task_id = <<>> THEN build_dependency_graph(Tail(records), acc)
            ELSE build_dependency_graph(Tail(records),
                     [t \in DOMAIN acc \cup {task_id} |->
                         IF t = task_id
                         THEN (IF t \in DOMAIN acc THEN acc[t] ELSE {}) \cup added_deps(task)
                         ELSE acc[t]])

\* The three encodings of a list of dependency ids.
AsIds(l) == DepArray([i \in 1..Len(l) |-> RInt(l[i])])
AsObjects(l) == DepArray([i \in 1..Len(l) |-> RObj(l[i])])
RECURSIVE Joined(_)
Joined(l) ==
    IF l = <<>> THEN <<>>
    ELSE IF Len(l) = 1 THEN Digits(l[1])
    ELSE Digits(l[1]) \o <<44>> \o Joined(Tail(l))
AsString(l) == DepString(Joined(l))

\* The dependency lists and the ids of the records of the model.
DepLists == {<<>>, <<0>>, <<1>>, <<1, 2>>}
DepFields == {NoDeps} \cup UNION {{AsIds(l), AsObjects(l), AsString(l)} : l \in DepLists}
RecordIds == {Absent, RInt(0), RInt(1)}
Records == [id : RecordIds, dependencies : DepFields]
RecordLists == UNION {[1..n -> Records] : n \in 0..MaxRecords}

\* ---------------------------------------------------------------- inputs
\* The example of the module docstring: {1: [], 2: [1], 3: [], 4: [1, 2]}.
ExampleGraph ==
    (Id_1 :> {}) @@ (Id_2 :> {Id_1}) @@ (Id_3 :> {}) @@ (Id_4 :> {Id_1, Id_2})

\* The functions called with a dependency graph.
Entries ==
    {"main", "detect_circular_dependencies", "build_execution_levels",
     "compute_execution_levels"}

EntryPc(e) ==
    CASE e = "main" -> "main"
      [] e = "detect_circular_dependencies" -> "detect"
      [] e = "build_execution_levels" -> "build"
      [] e = "compute_execution_levels" -> "compute"

\* A call with a dependency graph; main is past parse_tasks, line 234.
InitGraph ==
    /\ entry \in Entries
    /\ task_deps \in Graphs \cup {ExampleGraph}
    /\ pc = EntryPc(entry)
    /\ levels = <<>>
    /\ tasks_data = <<>>

\* A call of a stats function with a list of levels.
InitLevels ==
    /\ entry \in {"calculate_parallelism_stats", "compute_stats"}
    /\ task_deps = <<>>
    /\ pc = "stats"
    /\ levels \in LevelInputs
    /\ tasks_data = <<>>

\* main of src/.scripts and of src/scripts with the task records loaded.
InitRecords ==
    /\ entry \in Mains
    /\ task_deps = <<>>
    /\ pc = IF entry = "main" THEN "parse" ELSE "graph"
    /\ levels = <<>>
    /\ tasks_data \in RecordLists

Init ==
    /\ \/ InitGraph
       \/ InitLevels
       \/ InitRecords
    /\ error = NoError
    /\ visited = {}
    /\ path = {}
    /\ stack = <<>>
    /\ roots_left = DOMAIN task_deps
    /\ root = NoId
    /\ entered = <<>>
    /\ task_levels = <<>>
    /\ remaining = DOMAIN task_deps
    /\ iteration = 0
    /\ stats = NoStats
    /\ output_data = NoOutput

Raise(e) ==
    /\ error' = e
    /\ pc' = RaisedPc

\* ------------------------------------------------------------------ main
\* main of src/.scripts, line 234: task_deps = parse_tasks(tasks_data); the
\* functions called next start from its keys (lines 98 and 129).
ParseTasks ==
    /\ pc = "parse"
    /\ task_deps' = parse_tasks(tasks_data, <<>>)
    /\ roots_left' = DOMAIN task_deps'
    /\ remaining' = DOMAIN task_deps'
    /\ pc' = "main"
    /\ UNCHANGED <<entry, io_vars, error, visited, path, stack, root, entered, levels,
                   task_levels, iteration>>

\* main of src/scripts, lines 158-162: the graph is built and handed to
\* compute_execution_levels, which starts from the keys of task_lookup
\* (line 88).
BuildDependencyGraph ==
    /\ pc = "graph"
    /\ task_deps' = build_dependency_graph(tasks_data, <<>>)
    /\ remaining' = DOMAIN task_deps'
    /\ pc' = "compute"
    /\ UNCHANGED <<entry, io_vars, error, dfs_vars, levels, task_levels, iteration>>

\* main without lines 243-244: the graph goes to build_execution_levels
\* unchecked.
MainParsed_unvalidated ==
    /\ pc = "main"
    /\ pc' = IF task_deps = <<>> THEN "output" ELSE "build"
    /\ stats' = IF task_deps = <<>> THEN [total_tasks |-> 0, num_levels |-> 0] ELSE stats
    /\ UNCHANGED <<entry, tasks_data, output_data, task_deps, error, visited, path,
                   stack, roots_left, root, entered, levels, task_levels, remaining,
                   iteration>>

\* main, lines 234-243: an empty task_deps is written out as levels []
\* without validation, any other goes to validate_dependencies.
MainParsed ==
    /\ pc = "main"
    /\ pc' = IF task_deps = <<>> THEN "output" ELSE "validate"
    /\ stats' = IF task_deps = <<>> THEN empty_plan_stats ELSE stats
    /\ UNCHANGED <<entry, tasks_data, output_data, task_deps, error, dfs_vars,
                   level_vars>>

\* -------------------------------------------------- validate_dependencies
all_task_ids == Keys

\* The test of line 66 with its sense inverted.
is_missing_inverted(dep) == dep \in all_task_ids

\* The test of line 66.
is_missing(dep) == dep \notin all_task_ids

\* The (task_id, dep) pairs the two loops of lines 64-65 run over.
DepPairs == UNION {{<<t, d>> : d \in task_deps[t]} : t \in Keys}

\* validate_dependencies: raises for the first pair that fails the test, in
\* the order of the dict and of the dependency lists, which the input
\* decides; returns when no pair fails it.
ValidateDependencies ==
    /\ pc = "validate"
    /\ IF \E p \in DepPairs : is_missing(p[2])
       THEN \E p \in DepPairs :
               /\ is_missing(p[2])
               /\ Raise(DanglingError(p[1], p[2]))
       ELSE /\ pc' = "detect"
            /\ error' = error
    /\ UNCHANGED <<entry, io_vars, task_deps, dfs_vars, level_vars>>

\* ------------------------------------------- detect_circular_dependencies
\* dfs() without the test of line 83: an id on the path counts as processed.
dfs_guard_visited_only(task_id) == IF task_id \in visited THEN "seen" ELSE "enter"

\* The two tests that open dfs(), lines 83-86.
dfs_guard(task_id) ==
    IF task_id \in path THEN "cycle"
    ELSE IF task_id \in visited THEN "seen"
    ELSE "enter"

\* dfs() without line 95: the id stays on the path after the walk left it.
path_kept(task_id) == path

\* path.remove(task_id), line 95.
path_after_return(task_id) == path \ {task_id}

Frame(task_id) == [task |-> task_id, todo |-> DepsOf(task_id)]

\* Lines 88-89 and the start of the loop of line 91.
EnterBody(task_id, outer) ==
    /\ visited' = visited \cup {task_id}
    /\ path' = path \cup {task_id}
    /\ entered' = [t \in DOMAIN entered \cup {task_id} |->
                       IF t # task_id THEN entered[t]
                       ELSE IF t \in DOMAIN entered THEN entered[t] + 1
                       ELSE 1]
    /\ stack' = Append(outer, Frame(task_id))

\* The for loop of lines 98-103, one key per step, in the order of the dict.
DetectLoop ==
    /\ pc = "detect"
    /\ stack = <<>>
    /\ \E task_id \in roots_left :
          /\ roots_left' = roots_left \ {task_id}
          /\ IF task_id \in visited
             THEN UNCHANGED <<visited, path, stack, root, entered, pc, error>>
             ELSE /\ root' = task_id
                  /\ CASE dfs_guard(task_id) = "cycle" ->
                            /\ Raise(CircularError(task_id))
                            /\ UNCHANGED <<visited, path, stack, entered>>
                       [] dfs_guard(task_id) = "seen" ->
                            UNCHANGED <<visited, path, stack, entered, pc, error>>
                       [] dfs_guard(task_id) = "enter" ->
                            /\ EnterBody(task_id, stack)
                            /\ UNCHANGED <<pc, error>>
    /\ UNCHANGED <<entry, io_vars, task_deps, level_vars>>

\* One turn of the loop of lines 91-93 in the innermost dfs(): the call
\* dfs(dep). True is handed up through every active call to line 100, which
\* raises with the key the for loop started from.
DfsVisit ==
    /\ pc = "detect"
    /\ stack # <<>>
    /\ LET top == stack[Len(stack)]
           rest(dep) == [stack EXCEPT ![Len(stack)].todo = @ \ {dep}]
       IN \E dep \in top.todo :
             CASE dfs_guard(dep) = "cycle" ->
                    /\ Raise(CircularError(root))
                    /\ UNCHANGED <<visited, path, stack, entered>>
               [] dfs_guard(dep) = "seen" ->
                    /\ stack' = rest(dep)
                    /\ UNCHANGED <<visited, path, entered, pc, error>>
               [] dfs_guard(dep) = "enter" ->
                    /\ EnterBody(dep, rest(dep))
                    /\ UNCHANGED <<pc, error>>
    /\ UNCHANGED <<entry, io_vars, task_deps, roots_left, root, level_vars>>

\* Lines 95-96: the loop is over, the id leaves the path and dfs() returns
\* False.
DfsReturn ==
    /\ pc = "detect"
    /\ stack # <<>>
    /\ stack[Len(stack)].todo = {}
    /\ path' = path_after_return(stack[Len(stack)].task)
    /\ stack' = SubSeq(stack, 1, Len(stack) - 1)
    /\ UNCHANGED <<entry, io_vars, task_deps, pc, error, visited, roots_left, root,
                   entered, level_vars>>

\* The for loop is exhausted: detect_circular_dependencies returns None.
DetectReturn ==
    /\ pc = "detect"
    /\ stack = <<>>
    /\ roots_left = {}
    /\ pc' = IF entry = "main" THEN "build" ELSE "returned"
    /\ UNCHANGED <<entry, io_vars, task_deps, error, dfs_vars, level_vars>>

\* ------------------------------------------------ build_execution_levels
\* completed without lines 155-156: no id is ever added.
completed_never_updated == {}

\* completed, line 128: the ids an earlier iteration placed.
completed == DOMAIN task_levels

\* max_iterations, line 131.
max_iterations == Cardinality(Keys) + 1

\* The test of line 142.
can_execute(task_id, done) == \A dep \in task_deps[task_id] : dep \in done

\* The scan of lines 138-144 over list(remaining) in the given order: the
\* ids it selects, the first id whose int() raises, and the level of
\* line 159.
tasks_to_complete(order, done) == SelectSeq(order, LAMBDA t : can_execute(t, done))

current_level(order, done) ==
    LET ids == tasks_to_complete(order, done)
    IN [i \in 1..Len(ids) |-> int(ids[i])]

\* Line 159 without sorted(): the level in the order of the scan.
emitted_level_unsorted(order, done) == current_level(order, done)

\* levels.append(sorted(current_level)), line 159.
emitted_level(order, done) == sorted(current_level(order, done))

first_int_error(order, done) ==
    LET ids == tasks_to_complete(order, done)
        bad == {i \in 1..Len(ids) : int_raises(ids[i])}
    IN IF bad = {} THEN NoId
       ELSE ids[CHOOSE i \in bad : \A j \in bad : i <= j]

\* One iteration of the while loop of lines 134-160.
BuildIteration ==
    /\ pc = "build"
    /\ remaining # {}
    /\ iteration < max_iterations
    /\ \E order \in Orders(remaining) :
          LET ids == tasks_to_complete(order, completed)
          IN IF first_int_error(order, completed) # NoId
             THEN /\ Raise(IntError(first_int_error(order, completed)))
                  /\ UNCHANGED level_vars
             ELSE IF ids = <<>>
             THEN /\ Raise(UnableError)
                  /\ UNCHANGED level_vars
             ELSE /\ task_levels' =
                        [t \in completed \cup Range(ids) |->
                            IF t \in completed THEN task_levels[t] ELSE Len(levels)]
                  /\ remaining' = remaining \ Range(ids)
                  /\ levels' = Append(levels, emitted_level(order, completed))
                  /\ iteration' = iteration + 1
                  /\ UNCHANGED <<pc, error>>
    /\ UNCHANGED <<entry, io_vars, task_deps, dfs_vars>>

\* The loop has ended, lines 162-168.
BuildExit ==
    /\ pc = "build"
    /\ ~(remaining # {} /\ iteration < max_iterations)
    /\ IF remaining # {}
       THEN Raise(FailedError)
       ELSE /\ pc' = IF entry = "main" THEN "stats" ELSE "returned"
            /\ error' = error
    /\ UNCHANGED <<entry, io_vars, task_deps, dfs_vars, level_vars>>

\* calculate_parallelism_stats, called by main (line 248) or on its own.
CalculateParallelismStats ==
    /\ pc = "stats"
    /\ entry \in {"main", "calculate_parallelism_stats"}
    /\ stats' = calculate_parallelism_stats(levels)
    /\ pc' = IF entry = "main" THEN "output" ELSE "returned"
    /\ UNCHANGED <<entry, tasks_data, output_data, task_deps, error, dfs_vars,
                   level_vars>>

\* compute_stats, called by main of src/scripts (line 166) or on its own.
ComputeStats ==
    /\ pc = "stats"
    /\ entry \in {"scripts_main", "compute_stats"}
    /\ stats' = compute_stats(levels)
    /\ pc' = IF entry = "scripts_main" THEN "output" ELSE "returned"
    /\ UNCHANGED <<entry, tasks_data, output_data, task_deps, error, dfs_vars,
                   level_vars>>

\* main, lines 267-274 of src/.scripts and 169-175 of src/scripts: the plan
\* is written out and main returns.
MainOutput ==
    /\ pc = "output"
    /\ output_data' = [written |-> TRUE, levels |-> levels, stats |-> stats]
    /\ pc' = "exit0"
    /\ UNCHANGED <<entry, tasks_data, stats, task_deps, error, dfs_vars, level_vars>>

\* ---------------------------------------------- compute_execution_levels
\* Lines 97-101: no dependency of the task is outside the earlier levels.
no_unmet_deps(task_id, resolved) == DepsOf(task_id) \ resolved = {}

\* Lines 94-107: the ready tasks in the order of the scan of remaining_tasks,
\* or list(remaining_tasks) when no task is ready.
ready_tasks(order, resolved) ==
    LET ready == SelectSeq(order, LAMBDA t : no_unmet_deps(t, resolved))
    IN IF ready = <<>> THEN order ELSE ready

\* One iteration of the while loop of lines 92-118.
ComputeIteration ==
    /\ pc = "compute"
    /\ remaining # {}
    /\ \E order \in Orders(remaining) :
          LET ready == ready_tasks(order, DOMAIN task_levels)
          IN IF sort_raises(ready)
             THEN /\ Raise(SortTypeError)
                  /\ UNCHANGED level_vars
             ELSE /\ levels' = Append(levels, sort_by_key(ready))
                  /\ task_levels' =
                        [t \in DOMAIN task_levels \cup Range(ready) |->
                            IF t \in DOMAIN task_levels THEN task_levels[t]
                            ELSE Len(levels)]
                  /\ remaining' = remaining \ Range(ready)
                  /\ UNCHANGED <<pc, error, iteration>>
    /\ UNCHANGED <<entry, io_vars, task_deps, dfs_vars>>

\* Line 83-84 (no task at all) and line 120 (the loop has ended).
ComputeReturn ==
    /\ pc = "compute"
    /\ remaining = {}
    /\ pc' = IF entry = "scripts_main" THEN "stats" ELSE "returned"
    /\ UNCHANGED <<entry, io_vars, task_deps, error, dfs_vars, level_vars>>

Next ==
    \/ ParseTasks
    \/ BuildDependencyGraph
    \/ MainParsed
    \/ ValidateDependencies
    \/ DetectLoop
    \/ DfsVisit
    \/ DfsReturn
    \/ DetectReturn
    \/ BuildIteration
    \/ BuildExit
    \/ CalculateParallelismStats
    \/ ComputeStats
    \/ MainOutput
    \/ ComputeIteration
    \/ ComputeReturn

Spec == Init /\ [][Next]_vars

\* ============================================================ properties
\* The ids reachable from t by one or more dependency edges.
RECURSIVE Closure(_)
Closure(S) ==
    LET N == S \cup UNION {DepsOf(t) : t \in S}
    IN IF N = S THEN S ELSE Closure(N)

Reach(t) == Closure(DepsOf(t))

HasCycle == \E t \in Keys : t \in Reach(t)

HasDangling == \E t \in Keys : \E d \in task_deps[t] : d \notin Keys

\* The call has returned levels to its caller.
LevelsReturned ==
    \/ entry \in {"build_execution_levels", "compute_execution_levels"} /\ pc = "returned"
    \/ entry \in Mains /\ pc \in {"stats", "output", "exit0"}

RECURSIVE Flatten(_)
Flatten(ls) == IF ls = <<>> THEN <<>> ELSE Head(ls) \o Flatten(Tail(ls))

Count(x, s) == Cardinality({i \in 1..Len(s) : s[i] = x})

\* The call runs the code of src/scripts, not that of src/.scripts.
Scripts == entry \in {"compute_execution_levels", "scripts_main", "compute_stats"}

\* The levels were built by a leveler, not handed to a stats function.
LevelsBuilt == entry \notin {"calculate_parallelism_stats", "compute_stats"}

\* What a level holds for task t: the id itself in src/scripts, int(id) in
\* src/.scripts.
LevelEntry(t) == IF Scripts THEN t ELSE int(t)

\* C1: for an acyclic graph with no dangling reference, the returned levels
\* hold every task id exactly once, and nothing else.
C1_EveryTaskExactlyOnce ==
    (LevelsReturned /\ ~HasCycle /\ ~HasDangling) =>
        /\ \A t \in Keys : Count(LevelEntry(t), Flatten(levels)) = 1
        /\ Range(Flatten(levels)) = {LevelEntry(t) : t \in Keys}

\* C2: in the returned levels every dependency of a task of level i > 0 is
\* in an earlier level, and a task of level 0 has no dependency.
C2_DependenciesInEarlierLevels ==
    LevelsReturned =>
        \A t \in DOMAIN task_levels :
            /\ \A d \in DepsOf(t) :
                  d \in DOMAIN task_levels /\ task_levels[d] < task_levels[t]
            /\ task_levels[t] = 0 => DepsOf(t) = {}

\* C3: in the returned levels no two tasks of one level depend on each
\* other, directly or transitively.
C3_LevelMembersIndependent ==
    LevelsReturned =>
        \A t, u \in DOMAIN task_levels :
            (t # u /\ task_levels[t] = task_levels[u]) => u \notin Reach(t)

\* C4: a graph with a dependency cycle never gets past
\* detect_circular_dependencies: the call raises the circular-dependency
\* error, main never reaches build_execution_levels and no level is built.
C4_CyclicGraphRejected ==
    (HasCycle /\ entry \in {"main", "detect_circular_dependencies"}) =>
        /\ pc \notin {"build", "output", "exit0", "returned"}
        /\ levels = <<>>
        /\ pc \in {"raised", "exit1"} =>
              \/ error.kind = "ValueError: circular"
              \/ entry = "main" /\ HasDangling /\ error.kind = "ValueError: non-existent"

\* main has rejected the two-task cycle {2: [10], 10: [2]}.
C4_Witness ==
    /\ entry = "main"
    /\ pc = "exit1"
    /\ error.kind = "ValueError: circular"
    /\ task_deps = (Id_2 :> {Id_10}) @@ (Id_10 :> {Id_2})

\* C5: the id named in the circular-dependency error is on a cycle.
C5_ReportedTaskOnCycle ==
    error.kind = "ValueError: circular" => error.task \in Reach(error.task)

\* C6: validate_dependencies raises exactly when some dependency is not a
\* key, and the error names a task and a dependency of it that is no key.
C6_DanglingReported ==
    /\ error.kind = "ValueError: non-existent" =>
          /\ error.task \in Keys
          /\ error.dep \in task_deps[error.task]
          /\ error.dep \notin Keys
    /\ (entry = "main" /\ pc \notin {"main", "validate"} /\ Keys # {}) =>
          (error.kind = "ValueError: non-existent" <=> HasDangling)

\* main has rejected task "a" for its dependency on the missing "10".
C6_Witness ==
    /\ entry = "main"
    /\ pc = "exit1"
    /\ error = DanglingError(Id_a, Id_10)
    /\ Id_10 \notin Keys

\* No remaining task has all its dependencies in the earlier levels.
Stuck ==
    /\ pc \in {"build", "compute"}
    /\ remaining # {}
    /\ \A t \in remaining : ~(DepsOf(t) \subseteq DOMAIN task_levels)

\* C7: when no remaining task can be placed, the leveler fails with an
\* error and emits no further level.
C7_NoBestEffortLevel ==
    [][Stuck => (pc' \in {"raised", "exit1"} /\ error'.kind # "none" /\ levels' = levels)]_vars

\* C8: an acyclic graph is never reported as circular, and the body of
\* dfs() is entered at most once per id.
C8_AcyclicNeverFlagged ==
    /\ ~HasCycle => error.kind # "ValueError: circular"
    /\ \A t \in DOMAIN entered : entered[t] <= 1

\* detect_circular_dependencies has returned for a graph in which one task
\* is reached from another directly and through a third.
C8_Witness ==
    /\ entry = "detect_circular_dependencies"
    /\ pc = "returned"
    /\ \E a, b, c \in Keys :
          /\ a # b /\ b # c /\ a # c
          /\ {b, c} \subseteq task_deps[a]
          /\ c \in task_deps[b]
          /\ entered[a] = 1 /\ entered[b] = 1 /\ entered[c] = 1

\* The elements of a set of ids in lexicographic order.
Canonical(S) == CHOOSE s \in Orders(S) : \A i, j \in 1..Len(s) : i < j => StrLess(s[i], s[j])

\* The levels of build_execution_levels when every scan runs in
\* lexicographic order.
RECURSIVE BuildLevelsFrom(_, _, _)
BuildLevelsFrom(done, rem, acc) ==
    IF rem = {} \/ tasks_to_complete(Canonical(rem), done) = <<>> THEN acc
    ELSE LET ids == tasks_to_complete(Canonical(rem), done)
         IN BuildLevelsFrom(done \cup Range(ids), rem \ Range(ids),
                            Append(acc, emitted_level(Canonical(rem), done)))

\* The levels of compute_execution_levels when every scan runs in
\* lexicographic order.
RECURSIVE ComputeLevelsFrom(_, _, _)
ComputeLevelsFrom(resolved, rem, acc) ==
    IF rem = {} THEN acc
    ELSE LET ready == ready_tasks(Canonical(rem), resolved)
         IN IF sort_raises(ready) THEN acc
            ELSE ComputeLevelsFrom(resolved \cup Range(ready), rem \ Range(ready),
                                   Append(acc, sort_by_key(ready)))

\* C9: the returned levels, and the order inside each, do not depend on the
\* order in which the remaining ids were scanned.
C9_LevelsReproducible ==
    LevelsReturned =>
        levels = IF Scripts
                 THEN ComputeLevelsFrom({}, Keys, <<>>)
                 ELSE BuildLevelsFrom({}, Keys, <<>>)

\* The ordering rule of a level of src/scripts: numeric ids ascending by
\* value, non-numeric ids lexicographically.
OrderedIds(l) ==
    \A i, j \in 1..Len(l) :
        i < j =>
            /\ (isdigit(l[i]) /\ isdigit(l[j])) => int(l[i]) <= int(l[j])
            /\ (~isdigit(l[i]) /\ ~isdigit(l[j])) => ~StrLess(l[j], l[i])

OrderedInts(l) == \A i, j \in 1..Len(l) : i < j => l[i] <= l[j]

\* C10: whatever the ids, numeric, non-numeric or both, every level is
\* built without an error and is in the order of the rule.
C10_LevelsOrderedWithoutError ==
    /\ error.kind \notin {"ValueError: int", "TypeError"}
    /\ LevelsBuilt =>
          \A i \in 1..Len(levels) :
              IF Scripts THEN OrderedIds(levels[i]) ELSE OrderedInts(levels[i])

\* C11: on an acyclic graph with no dangling reference every iteration of
\* the layering loop moves at least one task from remaining to the resolved
\* ids, and no more levels are built than there are tasks.
C11_EveryIterationResolvesATask ==
    [][(pc \in {"build", "compute"} /\ remaining # {} /\ ~HasCycle /\ ~HasDangling) =>
          /\ remaining' \subseteq remaining
          /\ remaining' # remaining
          /\ DOMAIN task_levels' = DOMAIN task_levels \cup (remaining \ remaining')
          /\ Len(levels') <= Cardinality(Keys)]_vars

\* C12: when a validation check of main fails, main exits with status 1
\* and has built and written nothing; no level exists before both checks
\* have passed.
C12_NoPlanWhenValidationFails ==
    entry = "main" =>
        /\ error.kind \in {"ValueError: non-existent", "ValueError: circular"} =>
              pc = "exit1"
        /\ error.kind \in {"ValueError: non-existent", "ValueError: circular"} =>
              levels = <<>>
        /\ pc = "exit1" => output_data = NoOutput
        /\ (HasCycle \/ HasDangling) =>
              /\ pc \notin {"build", "stats", "output", "exit0"}
              /\ levels = <<>>
              /\ output_data = NoOutput
        /\ levels # <<>> =>
              /\ pc \in {"build", "stats", "output", "exit0", "exit1"}
              /\ ~HasCycle
              /\ ~HasDangling

\* main has exited with status 1 on a graph that has a cycle and a dangling
\* reference, with nothing written.
C12_Witness ==
    /\ entry = "main"
    /\ pc = "exit1"
    /\ HasCycle
    /\ HasDangling
    /\ error.kind = "ValueError: non-existent"
    /\ output_data = NoOutput

\* A stats function has computed its record.
FullStats == stats # NoStats /\ stats # empty_plan_stats

StatCount == IF Scripts THEN stats.total_levels ELSE stats.num_levels
StatMax == IF Scripts THEN stats.max_parallelism ELSE stats.max_parallel_tasks
StatAvg == IF Scripts THEN stats.avg_parallelism ELSE stats.avg_parallel_tasks

\* C13: the stats are the sum of the level sizes, the number of levels, the
\* largest level size and the quotient of the first two to the nearest
\* hundredth (zero for no levels); the average is at most the maximum.
C13_StatsConsistent ==
    FullStats =>
        /\ error = NoError
        /\ stats.total_tasks = Len(Flatten(levels))
        /\ StatCount = Len(levels)
        /\ \A i \in 1..Len(levels) : Len(levels[i]) <= StatMax
        /\ levels # <<>> => \E i \in 1..Len(levels) : Len(levels[i]) = StatMax
        /\ levels = <<>> => StatMax = 0 /\ StatAvg = 0
        /\ levels # <<>> =>
              /\ 2 * (100 * stats.total_tasks - StatAvg * StatCount) <= StatCount
              /\ 2 * (StatAvg * StatCount - 100 * stats.total_tasks) <= StatCount
        /\ StatAvg <= 100 * StatMax
        /\ stats.total_tasks <= StatMax * StatCount

\* A stats function has returned for five tasks in three levels: the
\* average is 1.67.
C13_Witness ==
    /\ entry \in {"calculate_parallelism_stats", "compute_stats"}
    /\ pc = "returned"
    /\ stats.total_tasks = 5
    /\ StatCount = 3
    /\ StatAvg = 167

\* The call was made with no task, or no level, and has returned.
EmptyPlanDone ==
    \/ entry \in Mains /\ Keys = {} /\ pc \in {"output", "exit0"}
    \/ entry \in {"calculate_parallelism_stats", "compute_stats"}
          /\ pc = "returned" /\ levels = <<>>
    \/ entry = "compute_execution_levels" /\ Keys = {} /\ pc = "returned"

\* C14 as stated: for an empty task list the levels are [], every field of
\* the stats record is zero and no error is raised.
C14_EmptyPlanAllZero ==
    EmptyPlanDone =>
        /\ levels = <<>>
        /\ error = NoError
        /\ stats # NoStats => \A f \in DOMAIN stats : stats[f] = 0

\* C14 as amended: for an empty task list the levels are [], no error is
\* raised and every field of the stats record is zero, except
\* theoretical_speedup, which calculate_parallelism_stats sets to 1.0.
C14_EmptyPlanZeroButSpeedup ==
    EmptyPlanDone =>
        /\ levels = <<>>
        /\ error = NoError
        /\ stats # NoStats =>
              /\ \A f \in DOMAIN stats \ {"theoretical_speedup"} : stats[f] = 0
              /\ "theoretical_speedup" \in DOMAIN stats => stats.theoretical_speedup = 100
        /\ entry = "calculate_parallelism_stats" => "theoretical_speedup" \in DOMAIN stats

\* calculate_parallelism_stats has returned for no levels.
C14_Witness ==
    /\ entry = "calculate_parallelism_stats"
    /\ pc = "returned"
    /\ levels = <<>>
    /\ stats.avg_parallel_tasks = 0
    /\ stats.theoretical_speedup = 100

\* C15: for {1: [], 2: [1], 3: [], 4: [1, 2]} the levels are
\* [[1, 3], [2], [4]] and the stats 4 tasks, 3 levels, maximum 2, average
\* 1.33.
C15_ExampleLevelsAndStats ==
    (task_deps = ExampleGraph /\ LevelsReturned) =>
        IF Scripts
        THEN /\ levels = <<<<Id_1, Id_3>>, <<Id_2>>, <<Id_4>>>>
             /\ compute_stats(levels) =
                   [total_tasks |-> 4, total_levels |-> 3, max_parallelism |-> 2,
                    avg_parallelism |-> 133]
        ELSE /\ levels = <<<<1, 3>>, <<2>>, <<4>>>>
             /\ calculate_parallelism_stats(levels).total_tasks = 4
             /\ calculate_parallelism_stats(levels).num_levels = 3
             /\ calculate_parallelism_stats(levels).max_parallel_tasks = 2
             /\ calculate_parallelism_stats(levels).avg_parallel_tasks = 133
             /\ (entry = "main" /\ pc \in {"output", "exit0"}) =>
                   stats = calculate_parallelism_stats(levels)

\* main has written the plan of the example.
C15_Witness ==
    /\ entry = "main"
    /\ task_deps = ExampleGraph
    /\ pc = "exit0"
    /\ output_data.written
    /\ output_data.levels = <<<<1, 3>>, <<2>>, <<4>>>>
    /\ output_data.stats.avg_parallel_tasks = 133

\* The graph builder has run.
GraphBuilt == entry \in Mains /\ tasks_data # <<>> /\ pc \notin {"parse", "graph"}

\* Record k has an id that no other record has.
OnlyRecordOfItsId(k) ==
    /\ tasks_data[k].id # Absent
    /\ \A j \in 1..Len(tasks_data) : j # k => tasks_data[j].id # tasks_data[k].id

\* C16: a list of (non-zero) dependency ids gives the same dependency set,
\* the set of its ids as strings, in each of its three encodings.
C16_SameDepsForEveryEncoding ==
    GraphBuilt =>
        \A k \in 1..Len(tasks_data) :
            OnlyRecordOfItsId(k) =>
                \A l \in DepLists :
                    (/\ 0 \notin Range(l)
                     /\ tasks_data[k].dependencies \in {AsIds(l), AsObjects(l), AsString(l)})
                    => task_deps[py_str(tasks_data[k].id)] = {Digits(l[i]) : i \in 1..Len(l)}

\* C17: every int entry of a dependency list, 0 included, is kept as its
\* decimal string, and another task that lists 0 is placed after task "0".
C17_ZeroDependencyKept ==
    GraphBuilt =>
        \A k \in 1..Len(tasks_data) :
            OnlyRecordOfItsId(k) =>
                LET items == tasks_data[k].dependencies.items
                    task_id == py_str(tasks_data[k].id)
                IN \A i \in 1..Len(items) :
                      items[i].type = "int" =>
                          /\ Digits(items[i].val[1]) \in task_deps[task_id]
                          /\ (/\ LevelsReturned
                              /\ items[i].val[1] = 0
                              /\ task_id # <<48>>
                              /\ {<<48>>, task_id} \subseteq DOMAIN task_levels)
                             => task_levels[<<48>>] < task_levels[task_id]

\* C18: once both validation checks of main have passed,
\* build_execution_levels never finds the remaining tasks unschedulable; the
\* RuntimeError for that is raised only for a graph that was not validated,
\* and is not one of the two ValueErrors of validation.
C18_NoSchedulingErrorAfterValidation ==
    /\ entry = "main" =>
          /\ error.kind # UnableError.kind
          /\ ~Stuck
    /\ error.kind = UnableError.kind =>
          /\ entry = "build_execution_levels"
          /\ HasCycle \/ HasDangling
    /\ UnableError.kind \notin {DanglingError(NoId, NoId).kind, CircularError(NoId).kind}

\* main has validated a graph and built two or more levels for it.
C18_Witness ==
    /\ entry = "main"
    /\ pc = "stats"
    /\ Len(levels) >= 2
    /\ error = NoError

\* The ids of the levels before level i (0-based).
PlacedBefore(i) == {t \in DOMAIN task_levels : task_levels[t] < i}

\* C19: every level holds every task not placed earlier whose whole
\* dependency set is in the earlier levels, and every task of a level
\* after the first has a dependency in the level right before it.
C19_LevelsMaximal ==
    (LevelsReturned /\ LevelsBuilt) =>
        \A t \in DOMAIN task_levels :
            /\ \A i \in 0..(task_levels[t] - 1) : ~(DepsOf(t) \subseteq PlacedBefore(i))
            /\ task_levels[t] > 0 =>
                  \E d \in DepsOf(t) :
                      d \in DOMAIN task_levels /\ task_levels[d] = task_levels[t] - 1

\* C19 for build_execution_levels alone.
C19_LevelsMaximal_build == Scripts \/ C19_LevelsMaximal

\* The dependency set the graph builder makes of one record alone.
DepsOfRecord(task) == IF Scripts THEN added_deps(task) ELSE Range(dep_ids(task))

\* C20: of two records with the same id the later one decides the
\* dependency set of the id, and nothing of the earlier one is kept.
C20_LastWriteWins ==
    GraphBuilt =>
        \A j, k \in 1..Len(tasks_data) :
            (/\ j < k
             /\ tasks_data[k].id # Absent
             /\ tasks_data[j].id = tasks_data[k].id
             /\ \A m \in 1..Len(tasks_data) : m > k => tasks_data[m].id # tasks_data[k].id)
            => task_deps[py_str(tasks_data[k].id)] = DepsOfRecord(tasks_data[k])

\* C21: every iteration of the loop of build_execution_levels raises
\* "Unable to schedule" or removes at least one task from remaining, and the
\* "Failed to schedule all tasks" error is never raised.
C21_IterationCapNeverReached ==
    [][pc = "build" =>
          /\ error'.kind # FailedError.kind
          /\ remaining # {} =>
                /\ iteration < max_iterations
                /\ \/ error' = UnableError
                   \/ /\ error' = NoError
                      /\ remaining' \subseteq remaining
                      /\ remaining' # remaining]_vars

\* The last level of ls as a set.
LastLevel(ls) == Range(ls[Len(ls)])

\* C22: every iteration of the loop of compute_execution_levels removes the
\* non-empty level it emits from the remaining tasks, so the loop ends
\* within as many iterations as there are tasks; a level emitted when no task
\* is ready holds all remaining tasks and ends the loop; the call returns,
\* with every id of task_lookup in exactly one level.
C22_ComputeTerminatesWithEveryTask ==
    [][pc = "compute" =>
          /\ error' = NoError
          /\ remaining # {} =>
                /\ Len(levels') = Len(levels) + 1
                /\ LastLevel(levels') # {}
                /\ LastLevel(levels') \subseteq remaining
                /\ remaining' = remaining \ LastLevel(levels')
                /\ Stuck => LastLevel(levels') = remaining /\ remaining' = {}
          /\ remaining = {} =>
                /\ pc' \in {"returned", "stats"}
                /\ levels' = levels
                /\ \A t \in Keys : Count(t, Flatten(levels)) = 1
                /\ Len(Flatten(levels)) = Cardinality(Keys)
                /\ \A i \in 1..Len(levels) : levels[i] # <<>>]_vars

\* C21 without the iterations that raise at int(): the loop never stops at
\* the cap and the "Failed to schedule all tasks" error is never raised.
C21_FailedErrorUnreachable ==
    /\ error.kind # FailedError.kind
    /\ (pc = "build" /\ remaining # {}) => iteration < max_iterations

====
